---- MODULE Spec2Model ----
(***************************************************************************)
(* Model of the coaches_top3_analysis pipeline                             *)
(* (src/dags/coaches_top3_dag.py) and of the reader check_database         *)
(* (src/check_results.py).                                                 *)
(*                                                                         *)
(* Two specifications share the module:                                    *)
(*   SpecT : transform_data as a pure function of the three record sets,  *)
(*           over a bounded family of inputs;                              *)
(*   Spec  : the DAG (seven tasks, retries, dependencies) run by several  *)
(*           DAG runs against the one SQLite store.                        *)
(***************************************************************************)
EXTENDS Integers, Sequences, FiniteSets, TLC

VARIABLES
    \* ---- SpecT: one call of transform_data
    results_data,   \* xcom 'results_data'  : sequence of result records
    athletes_data,  \* xcom 'athletes_data' : sequence of athlete records
    coaches_data,   \* xcom 'coaches_data'  : sequence of coach records
    t_state,        \* "ready" | "success" | "KeyError"
    t_top,          \* xcom 'top_coaches' pushed by the call
    \* ---- Spec: the DAG runs and the store
    files,          \* DATA_DIR: which data set each source file holds (0: missing)
    dag_runs,       \* the DAG runs created so far
    ti,             \* ti[r][t]: state of task instance t of run r
    try_number,     \* try_number[r][t]: tries started
    xcom,           \* xcom[r][key]
    load_pc,        \* load_pc[r]: how far the running load_to_database got
    txn,            \* txn[r]: the table as run r's open transaction sees it
    txn_seq,        \* txn_seq[r]: sqlite_sequence inside that transaction
    table_exists,   \* top_coaches.db holds the table top_coaches
    table,          \* the committed rows of top_coaches
    table_seq,      \* committed sqlite_sequence (AUTOINCREMENT)
    writer,         \* the run holding SQLite's write lock, 0 if none
    last_commit,    \* history: the run whose load committed last, 0 if none
    seen,           \* history: seen[r].at is last_commit when generate_report
                    \*   of run r read the table
    checked         \* what check_database read last (.rows), with history:
                    \*   .at and .writer are last_commit and writer at that time

tvars == <<results_data, athletes_data, coaches_data, t_state, t_top>>

dbvars == <<table_exists, table, table_seq, writer, last_commit>>

pvars == <<files, dag_runs, ti, try_number, xcom, load_pc, txn, txn_seq,
           dbvars, seen, checked>>

vars == <<tvars, pvars>>

(***************************************************************************)
(* Bounds of the model.                                                    *)
(***************************************************************************)
\* most rows of one lookup table (athletes, coaches) in the join family
MaxRows == 3
\* most copies of one first-place result row
MaxWins == 2

(***************************************************************************)
(* Program constants.                                                      *)
(***************************************************************************)
\* df_results['place'] == 1
QualifyingPlace == 1
\* .head(3)
TopK == 3

\* A missing cell: read_csv / read_excel give NaN, and groupby drops it.
NaN == "NaN"

Min(a, b) == IF a <= b THEN a ELSE b

(***************************************************************************)
(* pandas, as far as transform_data uses it.                               *)
(***************************************************************************)

\* pd.DataFrame(records): the columns are the keys of the records, so a
\* frame built from an empty list has no columns at all.
DataFrame(records) ==
    [columns |-> IF records = <<>> THEN {} ELSE DOMAIN records[1],
     rows    |-> records]

\* Mutant of FilterWinners: the place filter is lost.
FilterNothing(df) ==
    IF "place" \notin df.columns
    THEN [ok |-> FALSE, columns |-> {}, rows |-> <<>>]
    ELSE [ok |-> TRUE, columns |-> df.columns, rows |-> df.rows]

\* df_results[df_results['place'] == 1]; df['place'] raises KeyError when
\* the frame has no such column.
FilterWinners(df) ==
    IF "place" \notin df.columns
    THEN [ok |-> FALSE, columns |-> {}, rows |-> <<>>]
    ELSE [ok |-> TRUE, columns |-> df.columns,
          rows |-> SelectSeq(df.rows, LAMBDA r : r.place = QualifyingPlace)]

\* The rows of `right` matching left row l on column `on`, each joined to l.
RECURSIVE Matches(_, _, _)
Matches(l, rrows, on) ==
    IF rrows = <<>> THEN <<>>
    ELSE (IF Head(rrows)[on] = l[on] THEN <<l @@ Head(rrows)>> ELSE <<>>)
         \o Matches(l, Tail(rrows), on)

RECURSIVE JoinRows(_, _, _)
JoinRows(lrows, rrows, on) ==
    IF lrows = <<>> THEN <<>>
    ELSE Matches(Head(lrows), rrows, on) \o JoinRows(Tail(lrows), rrows, on)

\* left.merge(right, on=on): inner join, one output row per matching pair
\* (many-to-many); KeyError when either frame lacks the key column.
Merge(left, right, on) ==
    IF ~left.ok \/ on \notin left.columns \/ on \notin right.columns
    THEN [ok |-> FALSE, columns |-> {}, rows |-> <<>>]
    ELSE [ok |-> TRUE, columns |-> left.columns \cup right.columns,
          rows |-> JoinRows(left.rows, right.rows, on)]

\* merged.groupby('coach_name').size(): one group per non-missing name that
\* occurs, with its number of rows.
GroupKeys(merged) ==
    {merged.rows[i].coach_name : i \in DOMAIN merged.rows} \ {NaN}

GroupSize(merged, n) ==
    Cardinality({i \in DOMAIN merged.rows : merged.rows[i].coach_name = n})

\* Mutant of SortValues: ascending=True.
SortValuesAscending(merged) ==
    LET keys == GroupKeys(merged)
        n    == Cardinality(keys)
    IN  {s \in [1..n -> keys] :
            /\ \A i, j \in 1..n : i # j => s[i] # s[j]
            /\ \A i, j \in 1..n :
                 i < j => GroupSize(merged, s[i]) <= GroupSize(merged, s[j])}

\* .sort_values('first_places', ascending=False): the default sort is not
\* stable, so every count-descending order of the groups is possible.
SortValues(merged) ==
    LET keys == GroupKeys(merged)
        n    == Cardinality(keys)
    IN  {s \in [1..n -> keys] :
            /\ \A i, j \in 1..n : i # j => s[i] # s[j]
            /\ \A i, j \in 1..n :
                 i < j => GroupSize(merged, s[i]) >= GroupSize(merged, s[j])}

\* .head(3) and .to_dict('records')
HeadRecords(merged, s) ==
    [i \in 1..Min(TopK, Len(s)) |->
        [coach_name |-> s[i], first_places |-> GroupSize(merged, s[i])]]

\* winners.merge(df_athletes, on='athlete_id').merge(df_coaches, on='coach_id')
Merged(rd, ad, cd) ==
    Merge(Merge(FilterWinners(DataFrame(rd)), DataFrame(ad), "athlete_id"),
          DataFrame(cd), "coach_id")

\* Every value transform_data can push as 'top_coaches' (none on KeyError).
TopCoaches(rd, ad, cd) ==
    LET merged == Merged(rd, ad, cd)
    IN  IF merged.ok
        THEN {HeadRecords(merged, s) : s \in SortValues(merged)}
        ELSE {}

(***************************************************************************)
(* Inputs of SpecT.                                                        *)
(***************************************************************************)
\* Join family: few ids, every kind of key clash; results also name an
\* athlete id (3) that no athlete row has.
JAthleteIds == {1, 2}
JResultIds == {1, 2, 3}
JLoserIds == {1, 3}
JCoachIds == {10, 11}
JNames == {"A", "B", NaN}
\* Ranking family: more coaches than TopK, one athlete per coach.
RIds == {1, 2, 3, 4, 5}
RName(c) == <<"A", "B", "C", "D", "E">>[c]

ResultRow(a, p) == [athlete_id |-> a, place |-> p]
AthleteRow(a, c) == [athlete_id |-> a, coach_id |-> c]
CoachRow(c, n) == [coach_id |-> c, coach_name |-> n]

\* The elements of a finite set of records as a sequence (some fixed order).
RECURSIVE SeqOf(_)
SeqOf(S) ==
    IF S = {} THEN <<>>
    ELSE LET x == CHOOSE y \in S : TRUE IN <<x>> \o SeqOf(S \ {x})

RECURSIVE Copies(_, _)
Copies(x, k) == IF k = 0 THEN <<>> ELSE <<x>> \o Copies(x, k - 1)

\* wins[a] first-place rows and lost[a] other rows for each athlete id.
RECURSIVE ResultsOf(_, _, _)
ResultsOf(ids, wins, lost) ==
    IF ids = {} THEN <<>>
    ELSE LET a == CHOOSE x \in ids : TRUE
         IN  Copies(ResultRow(a, 1), wins[a]) \o Copies(ResultRow(a, 2), lost[a])
             \o ResultsOf(ids \ {a}, wins, lost)

SmallSubsets(S) == {T \in SUBSET S : Cardinality(T) <= MaxRows}

InitJoin ==
    /\ \E wins \in [JResultIds -> 0..MaxWins], L \in SUBSET JLoserIds :
          results_data = ResultsOf(JResultIds, wins,
                                   [a \in JResultIds |-> IF a \in L THEN 1 ELSE 0])
    /\ \E A \in SmallSubsets({AthleteRow(a, c) : a \in JAthleteIds, c \in JCoachIds}) :
          athletes_data = SeqOf(A)
    /\ \E C \in SmallSubsets({CoachRow(c, n) : c \in JCoachIds, n \in JNames}) :
          coaches_data = SeqOf(C)

InitRank ==
    /\ \E wins \in [RIds -> 0..MaxWins] :
          results_data = ResultsOf(RIds, wins, [a \in RIds |-> 0])
    /\ athletes_data = SeqOf({AthleteRow(a, a) : a \in RIds})
    /\ coaches_data = SeqOf({CoachRow(c, RName(c)) : c \in RIds})

(***************************************************************************)
(* The DAG: tasks, dependencies, retries.                                   *)
(***************************************************************************)
\* DAG runs the model creates; the DAG sets no max_active_runs, so a run
\* may be created (by the schedule or by a manual trigger) while another
\* is still active.
NumRuns == 2
Runs == 1..NumRuns

\* default_args['retries']
Retries == 1

Extracts == {"extract_athletes", "extract_coaches", "extract_results"}

Tasks == Extracts \cup {"transform_data", "load_to_database",
                        "generate_report", "send_email_with_results"}

\* Mutant of Upstream: transform_task >> [load_task, report_task].
UpstreamReportSkipsLoad(t) ==
    CASE t = "transform_data" -> Extracts
      [] t = "load_to_database" -> {"transform_data"}
      [] t = "generate_report" -> {"transform_data"}
      [] t = "send_email_with_results" -> {"generate_report"}
      [] OTHER -> {}

\* Mutant of Upstream: only extract_results_task >> transform_task.
UpstreamResultsOnly(t) ==
    CASE t = "transform_data" -> {"extract_results"}
      [] t = "load_to_database" -> {"transform_data"}
      [] t = "generate_report" -> {"load_to_database"}
      [] t = "send_email_with_results" -> {"generate_report"}
      [] OTHER -> {}

\* [extract_athletes, extract_coaches, extract_results] >> transform_task
\* transform_task >> load_task >> report_task >> email_task
Upstream(t) ==
    CASE t = "transform_data" -> Extracts
      [] t = "load_to_database" -> {"transform_data"}
      [] t = "generate_report" -> {"load_to_database"}
      [] t = "send_email_with_results" -> {"generate_report"}
      [] OTHER -> {}

\* The source file an extract task reads, and the XCom key it pushes.
SourceOf(t) ==
    CASE t = "extract_athletes" -> "athletes"
      [] t = "extract_coaches" -> "coaches"
      [] t = "extract_results" -> "results"

KeyOf(t) ==
    CASE t = "extract_athletes" -> "athletes_data"
      [] t = "extract_coaches" -> "coaches_data"
      [] t = "extract_results" -> "results_data"

\* athletes.csv and coaches.xlsx as delivered (the example of the data set).
AthletesFile == <<AthleteRow(1, 10), AthleteRow(2, 10), AthleteRow(3, 11)>>
CoachesFile == <<CoachRow(10, "A"), CoachRow(11, "B")>>

\* Contents results.json can have: the example (coach A wins twice), a later
\* season (coach B wins once), no result yet, and no first place at all.
ResultsFiles ==
    << <<ResultRow(1, 1), ResultRow(2, 1), ResultRow(3, 2)>>,
       <<ResultRow(3, 1)>>,
       <<>>,
       <<ResultRow(1, 2)>> >>

\* files[f]: 0 when the file is missing or unreadable, else which content.
FileContent(f, v) ==
    CASE f = "athletes" -> AthletesFile
      [] f = "coaches" -> CoachesFile
      [] f = "results" -> ResultsFiles[v]

\* States of DATA_DIR.
DataDirs ==
    [athletes : 0..1, coaches : 0..1, results : 0..Len(ResultsFiles)]

\* ... with every source present.
FullDataDirs == {d \in DataDirs : d.athletes # 0 /\ d.coaches # 0 /\ d.results # 0}

\* A task instance may start when it has not run (or waits for its retry)
\* and every upstream task instance of its run has succeeded (all_success).
Runnable(r, t) ==
    /\ r \in dag_runs
    /\ ti[r][t] \in {"none", "up_for_retry"}
    /\ \A u \in Upstream(t) : ti[r][u] = "success"

\* The state of a task instance whose try raised: retried while the try
\* number is at most `retries`, failed after that.
StateAfterError(try) == IF try <= Retries THEN "up_for_retry" ELSE "failed"

\* A try that runs to its end in one step.
Finish(r, t, ok) ==
    /\ try_number' = [try_number EXCEPT ![r][t] = @ + 1]
    /\ ti' = [ti EXCEPT ![r][t] =
                IF ok THEN "success" ELSE StateAfterError(try_number[r][t] + 1)]

\* The end of a running try of load_to_database.
FinishLoad(r, ok) ==
    /\ ti' = [ti EXCEPT ![r]["load_to_database"] =
                IF ok THEN "success"
                ELSE StateAfterError(try_number[r]["load_to_database"])]
    /\ load_pc' = [load_pc EXCEPT ![r] = "idle"]
    /\ UNCHANGED try_number

\* The scheduler (timer or manual trigger) creates the next DAG run.
TriggerRun(r) ==
    /\ r \notin dag_runs
    /\ r = 1 \/ r - 1 \in dag_runs
    /\ dag_runs' = dag_runs \cup {r}
    /\ UNCHANGED <<tvars, files, ti, try_number, xcom, load_pc, txn, txn_seq,
                   dbvars, seen, checked>>

\* The source files are replaced or removed from outside.
ReplaceFiles(dirs) ==
    /\ \E d \in dirs \ {files} : files' = d
    /\ UNCHANGED <<tvars, dag_runs, ti, try_number, xcom, load_pc, txn, txn_seq,
                   dbvars, seen, checked>>

\* extract_athletes_data / extract_coaches_data / extract_results_data:
\* read the file (raising when it is missing) and push its records.
Extract(r, t) ==
    /\ Runnable(r, t)
    /\ IF files[SourceOf(t)] = 0
       THEN /\ Finish(r, t, FALSE)
            /\ UNCHANGED xcom
       ELSE /\ Finish(r, t, TRUE)
            /\ xcom' = [xcom EXCEPT ![r][KeyOf(t)] =
                          FileContent(SourceOf(t), files[SourceOf(t)])]
    /\ UNCHANGED <<tvars, files, dag_runs, load_pc, txn, txn_seq, dbvars,
                   seen, checked>>

\* transform_data: pull the three record sets, push 'top_coaches'.
Transform(r) ==
    /\ Runnable(r, "transform_data")
    /\ LET tops == TopCoaches(xcom[r]["results_data"], xcom[r]["athletes_data"],
                              xcom[r]["coaches_data"])
       IN  IF tops = {}
           THEN /\ Finish(r, "transform_data", FALSE)
                /\ UNCHANGED xcom
           ELSE /\ Finish(r, "transform_data", TRUE)
                /\ \E top \in tops :
                      xcom' = [xcom EXCEPT ![r]["top_coaches"] = top]
    /\ UNCHANGED <<tvars, files, dag_runs, load_pc, txn, txn_seq, dbvars,
                   seen, checked>>

\* A task instance whose upstream failed never runs.
UpstreamFailed(r, t) ==
    /\ r \in dag_runs
    /\ ti[r][t] = "none"
    /\ \E u \in Upstream(t) : ti[r][u] \in {"failed", "upstream_failed"}
    /\ ti' = [ti EXCEPT ![r][t] = "upstream_failed"]
    /\ UNCHANGED <<tvars, files, dag_runs, try_number, xcom, load_pc, txn,
                   txn_seq, dbvars, seen, checked>>

(***************************************************************************)
(* The store: top_coaches.db through sqlite3 connections.  A connection    *)
(* opens a transaction before its first DELETE or INSERT and the other     *)
(* connections see its changes when it commits; one connection at a time   *)
(* holds the write lock.                                                   *)
(***************************************************************************)

\* df.to_sql('top_coaches', conn, if_exists='append', index=False): one new
\* row per record of the frame, ids from sqlite_sequence.
AppendRows(rows, df, seq) ==
    rows \o [i \in 1..Len(df.rows) |->
               [id |-> seq + i,
                coach_name |-> df.rows[i].coach_name,
                first_places |-> df.rows[i].first_places]]

\* SELECT coach_name, first_places FROM top_coaches ORDER BY first_places DESC
\* on rows `tbl`: every count-descending order of the projected rows.
SelectOrdered(tbl) ==
    LET n == Len(tbl)
    IN  {[i \in 1..n |-> [coach_name |-> tbl[f[i]].coach_name,
                          first_places |-> tbl[f[i]].first_places]] :
           f \in {g \in [1..n -> 1..n] :
                    /\ \A i, j \in 1..n : i # j => g[i] # g[j]
                    /\ \A i, j \in 1..n :
                         i < j => tbl[g[i]].first_places >= tbl[g[j]].first_places}}

\* load_to_database, lines 110-121: pull 'top_coaches', connect, and
\* CREATE TABLE IF NOT EXISTS (DDL, outside any transaction).
LoadConnect(r) ==
    /\ Runnable(r, "load_to_database")
    /\ try_number' = [try_number EXCEPT ![r]["load_to_database"] = @ + 1]
    /\ ti' = [ti EXCEPT ![r]["load_to_database"] = "running"]
    /\ load_pc' = [load_pc EXCEPT ![r] = "connected"]
    /\ table_exists' = TRUE
    /\ UNCHANGED <<tvars, files, dag_runs, xcom, txn, txn_seq, table, table_seq,
                   writer, last_commit, seen, checked>>

\* load_to_database when the store cannot be opened: sqlite3 raises.
LoadUnavailable(r) ==
    /\ Runnable(r, "load_to_database")
    /\ Finish(r, "load_to_database", FALSE)
    /\ UNCHANGED <<tvars, files, dag_runs, xcom, load_pc, txn, txn_seq, dbvars,
                   seen, checked>>

\* line 122: DELETE FROM top_coaches. sqlite3 begins a transaction, which
\* takes the write lock; the statement waits while another connection
\* holds it.
\* Mutant of Delete: the DELETE is missing, the rows stay.
DeleteNothing(r) == table

\* Mutant of CommittedAfterDelete: the connection is in autocommit mode
\* (isolation_level=None), the DELETE is visible at once.
AutocommitDelete(r) == <<>>

\* The rows left in the transaction of run r after the DELETE.
Delete(r) == <<>>

\* The rows the other connections see after run r's DELETE: the transaction
\* that sqlite3 opened for it is not committed, so still the old ones.
CommittedAfterDelete(r) == table

LoadDelete(r) ==
    /\ load_pc[r] = "connected"
    /\ writer = 0
    /\ writer' = r
    /\ txn' = [txn EXCEPT ![r] = Delete(r)]
    /\ txn_seq' = [txn_seq EXCEPT ![r] = table_seq]
    /\ table' = CommittedAfterDelete(r)
    /\ load_pc' = [load_pc EXCEPT ![r] = "deleted"]
    /\ UNCHANGED <<tvars, files, dag_runs, ti, try_number, xcom, table_exists,
                   table_seq, last_commit, seen, checked>>

\* line 122 when the wait for the write lock times out: "database is locked".
LoadLocked(r) ==
    /\ load_pc[r] = "connected"
    /\ writer # 0
    /\ FinishLoad(r, FALSE)
    /\ UNCHANGED <<tvars, files, dag_runs, xcom, txn, txn_seq, dbvars, seen,
                   checked>>

\* line 123: df.to_sql(..., if_exists='append') inside the open transaction.
LoadInsert(r) ==
    /\ load_pc[r] = "deleted"
    /\ LET df == DataFrame(xcom[r]["top_coaches"])
       IN  /\ txn' = [txn EXCEPT ![r] = AppendRows(@, df, txn_seq[r])]
           /\ txn_seq' = [txn_seq EXCEPT ![r] =
                            IF Len(df.rows) = 0 THEN @ ELSE @ + Len(df.rows)]
    /\ load_pc' = [load_pc EXCEPT ![r] = "inserted"]
    /\ UNCHANGED <<tvars, files, dag_runs, ti, try_number, xcom, dbvars, seen,
                   checked>>

\* The commit that ends the transaction (to_sql commits after its INSERT,
\* line 124 otherwise) and line 125, conn.close(): the task succeeds.
LoadCommit(r) ==
    /\ load_pc[r] = "inserted"
    /\ table' = txn[r]
    /\ table_seq' = txn_seq[r]
    /\ writer' = 0
    /\ last_commit' = r
    /\ txn' = [txn EXCEPT ![r] = <<>>]
    /\ txn_seq' = [txn_seq EXCEPT ![r] = 0]
    /\ FinishLoad(r, TRUE)
    /\ UNCHANGED <<tvars, files, dag_runs, xcom, table_exists, seen, checked>>

\* An error inside the transaction (an I/O error, the worker killed): the
\* connection goes away without a commit and SQLite rolls back.
LoadAbort(r) ==
    /\ load_pc[r] \in {"deleted", "inserted"}
    /\ writer' = 0
    /\ txn' = [txn EXCEPT ![r] = <<>>]
    /\ txn_seq' = [txn_seq EXCEPT ![r] = 0]
    /\ FinishLoad(r, FALSE)
    /\ UNCHANGED <<tvars, files, dag_runs, xcom, table_exists, table, table_seq,
                   last_commit, seen, checked>>

\* generate_report: read the committed table, push the report.
GenerateReport(r) ==
    /\ Runnable(r, "generate_report")
    /\ IF table_exists
       THEN /\ Finish(r, "generate_report", TRUE)
            /\ \E q \in SelectOrdered(table) :
                  xcom' = [xcom EXCEPT ![r]["report"] = q]
            /\ seen' = [seen EXCEPT ![r] = [read |-> TRUE, at |-> last_commit]]
       ELSE /\ Finish(r, "generate_report", FALSE)
            /\ UNCHANGED <<xcom, seen>>
    /\ UNCHANGED <<tvars, files, dag_runs, load_pc, txn, txn_seq, dbvars, checked>>

\* send_email_with_results: send_email may raise (the SMTP server).
SendEmail(r) ==
    /\ Runnable(r, "send_email_with_results")
    /\ \E ok \in BOOLEAN : Finish(r, "send_email_with_results", ok)
    /\ UNCHANGED <<tvars, files, dag_runs, xcom, load_pc, txn, txn_seq, dbvars,
                   seen, checked>>

\* check_database (check_results.py): when the table exists, read it.
CheckDatabase ==
    /\ table_exists
    /\ \E q \in SelectOrdered(table) :
          checked' = [read |-> TRUE, rows |-> q, at |-> last_commit,
                      writer |-> writer]
    /\ UNCHANGED <<tvars, files, dag_runs, ti, try_number, xcom, load_pc, txn,
                   txn_seq, dbvars, seen>>

NoXCom ==
    [k \in {"athletes_data", "coaches_data", "results_data", "top_coaches",
            "report"} |-> <<>>]

InitP ==
    /\ dag_runs = {}
    /\ ti = [r \in Runs |-> [t \in Tasks |-> "none"]]
    /\ try_number = [r \in Runs |-> [t \in Tasks |-> 0]]
    /\ xcom = [r \in Runs |-> NoXCom]
    /\ load_pc = [r \in Runs |-> "idle"]
    /\ txn = [r \in Runs |-> <<>>]
    /\ txn_seq = [r \in Runs |-> 0]
    /\ writer = 0
    /\ last_commit = 0
    /\ seen = [r \in Runs |-> [read |-> FALSE, at |-> 0]]
    /\ checked = [read |-> FALSE, rows |-> <<>>, at |-> 0, writer |-> 0]

NoTransformCall ==
    /\ results_data = <<>>
    /\ athletes_data = <<>>
    /\ coaches_data = <<>>
    /\ t_state = "ready"
    /\ t_top = <<>>

\* A store that no run has written yet.
FreshStore ==
    /\ table_exists = FALSE
    /\ table = <<>>
    /\ table_seq = 0

\* A store left by an earlier deployment: it holds that ranking.
EarlierStore ==
    /\ table_exists = TRUE
    /\ table = <<[id |-> 1, coach_name |-> "B", first_places |-> 1]>>
    /\ table_seq = 1

\* What DAG run r can do.
RunStep(r) ==
    \/ TriggerRun(r)
    \/ \E t \in Extracts : Extract(r, t)
    \/ Transform(r)
    \/ \E t \in Tasks : UpstreamFailed(r, t)
    \/ LoadConnect(r)
    \/ LoadUnavailable(r)
    \/ LoadDelete(r)
    \/ LoadInsert(r)
    \/ LoadCommit(r)
    \/ LoadAbort(r)
    \/ GenerateReport(r)
    \/ SendEmail(r)

\* SpecStore: several DAG runs, overlapping at will, against the one store;
\* the sources are present and results.json changes between and during runs.
InitStore ==
    /\ files \in FullDataDirs
    /\ InitP
    /\ FreshStore
    /\ NoTransformCall

NextStore ==
    \/ \E r \in Runs : RunStep(r)
    \/ \E r \in Runs : LoadLocked(r)
    \/ ReplaceFiles(FullDataDirs)
    \/ CheckDatabase

SpecStore == InitStore /\ [][NextStore]_vars

\* SpecDag: one DAG run in full: any source may be missing, appear or
\* change at any time.
InitDag ==
    /\ files \in DataDirs
    /\ InitP
    /\ FreshStore \/ EarlierStore
    /\ NoTransformCall

NextDag ==
    \/ RunStep(1)
    \/ ReplaceFiles(DataDirs)
    \/ CheckDatabase

SpecDag == InitDag /\ [][NextDag]_vars

InitT ==
    /\ InitJoin \/ InitRank
    /\ t_state = "ready"
    /\ t_top = <<>>
    /\ files = [f \in {"athletes", "coaches", "results"} |-> 0]
    /\ InitP
    /\ FreshStore

\* transform_data completes and pushes 'top_coaches'.
TransformOk ==
    /\ t_state = "ready"
    /\ \E top \in TopCoaches(results_data, athletes_data, coaches_data) :
          t_top' = top
    /\ t_state' = "success"
    /\ UNCHANGED <<results_data, athletes_data, coaches_data, pvars>>

\* transform_data raises KeyError; nothing is pushed.
TransformRaise ==
    /\ t_state = "ready"
    /\ ~Merged(results_data, athletes_data, coaches_data).ok
    /\ t_state' = "KeyError"
    /\ UNCHANGED <<results_data, athletes_data, coaches_data, t_top, pvars>>

NextT == TransformOk \/ TransformRaise

SpecT == InitT /\ [][NextT]_vars

(***************************************************************************)
(* Properties of transform_data (SpecT).                                   *)
(***************************************************************************)

\* The joined rows behind coach name n: a first-place result record, an
\* athlete row with its athlete_id, a coach row with that row's coach_id
\* and the name n.
JoinedRows(n) ==
    {tr \in (DOMAIN results_data) \X (DOMAIN athletes_data) \X (DOMAIN coaches_data) :
        /\ results_data[tr[1]].place = 1
        /\ athletes_data[tr[2]].athlete_id = results_data[tr[1]].athlete_id
        /\ coaches_data[tr[3]].coach_id = athletes_data[tr[2]].coach_id
        /\ coaches_data[tr[3]].coach_name = n}

\* The first-place result records whose athlete resolves to a coach named n.
WinningResults(n) == {tr[1] : tr \in JoinedRows(n)}

CoachNames == {coaches_data[k].coach_name : k \in DOMAIN coaches_data}

\* The coaches (by coach_id) with at least one first-place result.
QualifyingCoaches ==
    {coaches_data[tr[3]].coach_id :
        tr \in UNION {JoinedRows(n) : n \in CoachNames}}

RankedNames == {t_top[i].coach_name : i \in DOMAIN t_top}

UniqueKeys ==
    /\ \A i, j \in DOMAIN athletes_data :
          athletes_data[i].athlete_id = athletes_data[j].athlete_id => i = j
    /\ \A i, j \in DOMAIN coaches_data :
          coaches_data[i].coach_id = coaches_data[j].coach_id => i = j

\* C2 (as claimed): for every input, transform_data produces a ranking whose
\* length is min(3, number of distinct coaches with at least one first-place
\* result after the joins).
C2_LengthIsMinKCoaches ==
    t_state # "ready" =>
        /\ t_state = "success"
        /\ Len(t_top) = Min(TopK, Cardinality(QualifyingCoaches))

\* C3: the ranking is the first 3 groups of the count-descending order: its
\* entries are in non-increasing order of first_places, it names no coach
\* twice and has at most 3 entries, and a named coach with first places is
\* left out only of a full ranking none of whose entries has a smaller count.
C3_TopKByCountDescending ==
    t_state = "success" =>
        /\ \A i, j \in DOMAIN t_top :
              i < j => /\ t_top[i].first_places >= t_top[j].first_places
                       /\ t_top[i].coach_name # t_top[j].coach_name
        /\ Len(t_top) <= TopK
        /\ \A n \in (CoachNames \ {NaN}) \ RankedNames :
              JoinedRows(n) # {} =>
                  /\ Len(t_top) = TopK
                  /\ \A i \in DOMAIN t_top :
                        Cardinality(JoinedRows(n)) <= t_top[i].first_places

\* C3 witness: a coach with first places is left out of a full ranking
\* whose entries all have strictly more.
C3_Witness ==
    /\ t_state = "success"
    /\ Len(t_top) = TopK
    /\ \E n \in (CoachNames \ {NaN}) \ RankedNames :
          /\ JoinedRows(n) # {}
          /\ Cardinality(JoinedRows(n)) < t_top[3].first_places

Unjoinable(i) ==
    /\ results_data[i].place = 1
    /\ \A n \in CoachNames : \A tr \in JoinedRows(n) : tr[1] # i

RemoveAt(seq, i) == SubSeq(seq, 1, i - 1) \o SubSeq(seq, i + 1, Len(seq))

\* C9 (as claimed): an unjoinable first-place result is dropped silently:
\* transform_data raises no error and its ranking is one it can produce
\* from the input without that result.
C9_UnjoinableDroppedSilently ==
    t_state # "ready" =>
        \A i \in DOMAIN results_data :
            Unjoinable(i) =>
                /\ t_state = "success"
                /\ t_top \in TopCoaches(RemoveAt(results_data, i),
                                        athletes_data, coaches_data)

(***************************************************************************)
(* Properties of the DAG runs and the store (SpecStore, SpecDag).          *)
(***************************************************************************)

\* SELECT coach_name, first_places of the rows tbl, in table order.
Projection(tbl) ==
    [i \in 1..Len(tbl) |-> [coach_name |-> tbl[i].coach_name,
                            first_places |-> tbl[i].first_places]]

\* The ranking that the load committed last had pulled (none: no rows).
RankingAt(r) == IF r = 0 THEN <<>> ELSE xcom[r]["top_coaches"]

\* The same entries, each once, in any order.
SameEntries(a, b) ==
    /\ Len(a) = Len(b)
    /\ {a[i] : i \in DOMAIN a} = {b[i] : i \in DOMAIN b}
    /\ Cardinality({b[i] : i \in DOMAIN b}) = Len(b)

\* C1: once a load has committed, top_coaches holds exactly the entries of
\* the run whose load committed last, each once, and nothing else.
C1_StoreHoldsLatestRun ==
    last_commit # 0 => Projection(table) = xcom[last_commit]["top_coaches"]

\* C1 witness: two runs have persisted the same entries, the second on a
\* retry of its load, and the table holds the rows of the later insert only.
C1_Witness ==
    /\ ti[1]["load_to_database"] = "success"
    /\ ti[2]["load_to_database"] = "success"
    /\ try_number[2]["load_to_database"] = 2
    /\ last_commit = 2
    /\ xcom[1]["top_coaches"] = xcom[2]["top_coaches"]
    /\ Len(table) = 1
    /\ table[1].id = 2

\* C4: whatever generate_report or check_database read is a complete
\* ranking: the one committed last at that time (the previous one while a
\* load is between its DELETE and its commit), never a table emptied or
\* partly written by an open transaction.
C4_ReadersSeeCompleteRanking ==
    /\ \A r \in Runs :
          seen[r].read => SameEntries(xcom[r]["report"], RankingAt(seen[r].at))
    /\ checked.read => SameEntries(checked.rows, RankingAt(checked.at))

\* C4 witness: check_database read the previous ranking, not empty, while
\* another run with a different ranking was inside its transaction; and a
\* generate_report has read too.
C4_Witness ==
    /\ checked.read
    /\ checked.writer # 0
    /\ checked.rows # <<>>
    /\ ~SameEntries(checked.rows, xcom[checked.writer]["top_coaches"])
    /\ \E r \in Runs : seen[r].read

\* C10 (as claimed): no two runs execute load_to_database at the same time.
C10_LoadsSerialized ==
    \A r1, r2 \in Runs :
        (ti[r1]["load_to_database"] = "running"
            /\ ti[r2]["load_to_database"] = "running") => r1 = r2

\* C5: in every run, generate_report and send_email_with_results have run
\* only if load_to_database of that run succeeded; when it failed, neither
\* ever started.
C5_NoReportWithoutLoad ==
    \A r \in Runs :
        /\ (try_number[r]["generate_report"] > 0
               \/ try_number[r]["send_email_with_results"] > 0)
             => ti[r]["load_to_database"] = "success"
        /\ ti[r]["load_to_database"] = "failed" =>
             /\ ti[r]["generate_report"] \in {"none", "upstream_failed"}
             /\ ti[r]["send_email_with_results"] \in {"none", "upstream_failed"}

\* C5 witness: the load failed on its second try and the report and the
\* email were marked upstream_failed.
C5_Witness ==
    /\ ti[1]["load_to_database"] = "failed"
    /\ try_number[1]["load_to_database"] = Retries + 1
    /\ ti[1]["generate_report"] = "upstream_failed"
    /\ ti[1]["send_email_with_results"] = "upstream_failed"

ExtractFailed(r) == \E e \in Extracts : ti[r][e] = "failed"

\* C6: in a run one of whose extract tasks failed, transform_data and
\* load_to_database never start, and every change of the store is a step
\* of the load of a run none of whose extract tasks failed.
C6_FailedExtractAbortsBeforePersist ==
    /\ [](\A r \in Runs :
            ExtractFailed(r) =>
                /\ try_number[r]["transform_data"] = 0
                /\ try_number[r]["load_to_database"] = 0
                /\ load_pc[r] = "idle")
    /\ [][<<table_exists, table, table_seq>>' # <<table_exists, table, table_seq>>
            => \E r \in Runs : /\ load_pc'[r] # load_pc[r]
                               /\ ~ExtractFailed(r)]_vars

\* C6 witness: an extract failed after its retry, transform and load were
\* marked upstream_failed, and the store still holds the earlier ranking.
C6_Witness ==
    /\ ExtractFailed(1)
    /\ \E e \in Extracts : try_number[1][e] = Retries + 1 /\ ti[1][e] = "failed"
    /\ ti[1]["transform_data"] = "upstream_failed"
    /\ ti[1]["load_to_database"] = "upstream_failed"
    /\ table # <<>>

\* C7 (as claimed): when the results record set is empty, transform_data
\* produces an empty ranking without raising, and the load that follows
\* leaves top_coaches with zero rows.
C7_EmptyResultsEmptyRanking ==
    \A r \in Runs :
        (/\ ti[r]["extract_results"] = "success"
         /\ xcom[r]["results_data"] = <<>>
         /\ try_number[r]["transform_data"] > 0)
        => /\ ti[r]["transform_data"] = "success"
           /\ xcom[r]["top_coaches"] = <<>>
           /\ (ti[r]["load_to_database"] = "success" /\ last_commit = r)
                => table = <<>>

====
